---- MODULE Spec2Model ----
(***************************************************************************)
(* StreamUnzipFunction (src/lambda_function.py): one Lambda invocation     *)
(* parses its trigger, creates / updates the job record in MongoDB,        *)
(* downloads a ZIP from S3, re-uploads its entries, calls Lambda 2 and     *)
(* marks the job COMPLETED or FAILED.                                      *)
(*                                                                         *)
(* Each action is one step of lambda_handler between two collaborator      *)
(* calls (S3, MongoDB, Lambda 2).  Invocations run one after the other on  *)
(* the same job collection and the same bucket.                            *)
(*                                                                         *)
(* Strings the code builds by concatenation are sequences of tokens;       *)
(* Python None is the empty sequence for optional dicts / messages, the    *)
(* token NoneKey for an object key and NoneId for a job identifier.        *)
(***************************************************************************)
EXTENDS Integers, Sequences, FiniteSets, TLC

(* ------------------------------ bounds -------------------------------- *)
\* longest archive drawn exhaustively over CoreAlphabet
MaxEntries == 2
\* number of handler invocations in one behaviour
MaxInvocations == 1

(* ------------------------- program constants -------------------------- *)
MinPdfSize == 1024
MinExcelSize == 2048
CheckpointEvery == 10
ProgressBase == 10
ProgressSpan == 30
ProgressUnzipped == 40

NoneKey == "None"
NoneId == <<"None", 0>>
ZipKey == "Answer_Scripts_Zip_Files/E1/C1/upload.zip"

(* --------------------------- archive entries -------------------------- *)
\* An archive entry: file_name = dir + stem + ext; `size` is the length of
\* the bytes zip_file.read returns; `readable` = FALSE makes the read raise.
Ent(d, s, x, n, r) == [dir |-> d, stem |-> s, ext |-> x, size |-> n, readable |-> r]

E_dir    == Ent("d1/", "", "", 0, TRUE)
E_junk   == Ent("", ".DS_Store", "", 100, TRUE)
E_pdf    == Ent("d1/", "a", ".pdf", 2000, TRUE)
E_pdf2   == Ent("d2/", "a", ".pdf", 1024, TRUE)
E_tiny   == Ent("", "tiny", ".pdf", 500, TRUE)
E_xlsx   == Ent("", "m", ".xlsx", 3000, TRUE)
E_xls    == Ent("d1/", "n", ".XLS", 2048, TRUE)
E_smallx == Ent("", "s", ".xls", 2047, TRUE)
E_other  == Ent("", "r", ".txt", 1, TRUE)
E_empty  == Ent("", "e", ".pdf", 0, TRUE)
E_bad    == Ent("", "b", ".xlsx", 3000, FALSE)

EntryAlphabet ==
    {E_dir, E_junk, E_pdf, E_pdf2, E_tiny, E_xlsx, E_xls, E_smallx,
     E_other, E_empty, E_bad}

\* the entries every archive of up to MaxEntries entries is built from
CoreAlphabet == {E_dir, E_pdf, E_xlsx, E_xls}

RECURSIVE SeqsUpTo(_, _)
SeqsUpTo(S, n) ==
    IF n = 0 THEN {<<>>}
    ELSE LET shorter == SeqsUpTo(S, n - 1)
         IN  shorter \cup {Append(s, e) : s \in {t \in shorter : Len(t) = n - 1}, e \in S}

Pad(n) == [i \in 1..n |-> E_dir]

\* archives long enough for the (idx + 1) % 10 checkpoint, index 10 being
\* an accepted entry, a directory, a junk entry or a duplicate spreadsheet
LongArchives ==
    { <<E_xlsx>> \o Pad(CheckpointEvery - 2) \o <<e, E_pdf>> :
        e \in {E_pdf2, E_dir, E_junk, E_xls} }

\* archives around a spreadsheet and a PDF, with any entry in between
FullArchives ==
    { <<a, b, c>> : a \in {E_xlsx, E_pdf}, b \in EntryAlphabet, c \in {E_pdf, E_xls} }

Archives ==
    SeqsUpTo(CoreAlphabet, MaxEntries) \cup {<<e>> : e \in EntryAlphabet}
        \cup FullArchives \cup LongArchives

(* ------------------------------ strings ------------------------------- *)
\* str.lower() on the extensions of the alphabet
Lower(x) ==
    CASE x = ".PDF" -> ".pdf"
      [] x = ".XLS" -> ".xls"
      [] x = ".XLSX" -> ".xlsx"
      [] OTHER -> x

FileName(e) == <<e.dir, e.stem, e.ext>>
\* os.path.basename(file_name)
BaseName(e) == <<e.stem, e.ext>>
EndsWithSlash(e) == e.stem = "" /\ e.ext = "" /\ e.dir # ""

\* substring test of str(e) messages built from tokens
Contains(msg, tok) == \E i \in 1..Len(msg) : msg[i] = tok

(* --------------------------- file classifier -------------------------- *)
\* names of the alphabet that contain one of JUNK_NAMES, start with '.'
\* or end with '~'
JunkStems == {".DS_Store", "._a", "Thumbs.db", "~$m"}
JunkExts == {".bak", ".lnk", ".swp", ".swo", ".log"}
JunkDirs == {"/tmp/", ".Trash-1/"}

is_junk_file(e) ==
    \/ FileName(e) = <<"", "", "">>
    \/ BaseName(e) = <<"", "">>
    \/ e.stem \in JunkStems
    \/ Lower(e.ext) \in JunkExts
    \/ e.dir \in JunkDirs

\* mutant: the PDF size floor is dropped
is_valid_pdf_NoFloor(e, file_size) == Lower(e.ext) = ".pdf"

is_valid_pdf(e, file_size) == Lower(e.ext) = ".pdf" /\ file_size >= MinPdfSize

is_valid_excel(e, file_size) ==
    (Lower(e.ext) = ".xlsx" \/ Lower(e.ext) = ".xls") /\ file_size >= MinExcelSize

\* The branch of the loop body (lines 213-287) an entry takes.  "dir",
\* "Junk", "ReadError", "Empty" and "Too small" leave through `continue`;
\* "pdf", "excel" and "other" reach a put_object.
Branch(e) ==
    IF EndsWithSlash(e) THEN "dir"
    ELSE IF is_junk_file(e) THEN "Junk"
    ELSE IF ~e.readable THEN "ReadError"
    ELSE IF e.size = 0 THEN "Empty"
    ELSE IF Lower(e.ext) = ".pdf"
         THEN IF ~is_valid_pdf(e, e.size) THEN "Too small" ELSE "pdf"
    ELSE IF Lower(e.ext) \in {".xlsx", ".xls"}
         THEN IF ~is_valid_excel(e, e.size) THEN "Too small" ELSE "excel"
    ELSE "other"

\* the skip record appended by a `continue` branch; `entry` is the 1-based
\* archive index of the entry it is about
SkipRecord(e, i) ==
    [fileName |-> IF Branch(e) \in {"Junk", "ReadError"} THEN FileName(e)
                  ELSE <<"">> \o BaseName(e),
     reason |-> IF Branch(e) = "ReadError" THEN "Bad CRC-32" ELSE Branch(e),
     entry |-> i]

\* dest_key = unzip_prefix + base_name; the prefix is the same for every
\* entry of an invocation
DestKey(e) == BaseName(e)

\* manifest item of an accepted entry; `entry` is the 1-based archive index
Manifest(e, i) ==
    [s3Key |-> DestKey(e), fileName |-> BaseName(e), uniqueCode |-> e.stem,
     fileSize |-> e.size, entry |-> i]

\* mutant: the fraction of handled entries is not taken, the index is scaled
CheckpointProgress_Unscaled(i, total) == ProgressBase + (i * ProgressSpan)

\* progress = 10 + int((idx + 1) / total_entries * 30), as the floor of the
\* exact quotient
CheckpointProgress(i, total) == ProgressBase + ((i * ProgressSpan) \div total)

(* --------------------------- event normalizer ------------------------- *)
\* A trigger payload: `records` tells what event['Records'] is ("absent",
\* "empty", a list whose first entry is an "s3" event, or "other");
\* jobId / s3Key are the direct-invocation fields (None when absent).
Ev(r, j, k) == [records |-> r, jobId |-> j, s3Key |-> k]

Events ==
    { Ev("s3", NoneId, NoneKey),
      Ev("other", <<"J1", 0>>, ZipKey),
      Ev("absent", <<"J1", 0>>, ZipKey),
      Ev("absent", NoneId, ZipKey),
      Ev("empty", NoneId, NoneKey) }

\* parse_event: ret = "dict" with the descriptor, "None" when the function
\* falls off its end, "raise" for ValueError("Invalid event format")
parse_event(ev, uuid) ==
    IF ev.records \in {"s3", "other"}
    THEN IF ev.records = "s3"
         THEN [ret |-> "dict", jobId |-> <<"JOB-", uuid>>, s3Key |-> ZipKey,
               source |-> "S3_EVENT"]
         ELSE [ret |-> "None", jobId |-> NoneId, s3Key |-> NoneKey, source |-> ""]
    ELSE IF ev.jobId # NoneId \/ ev.s3Key # NoneKey
         THEN [ret |-> "dict", jobId |-> ev.jobId, s3Key |-> ev.s3Key,
               source |-> "DIRECT_INVOCATION"]
         ELSE [ret |-> "raise", jobId |-> NoneId, s3Key |-> NoneKey, source |-> ""]

(* --------------------------- downstream invoker ----------------------- *)
\* What lambda_client.invoke yields: a transport exception, or a payload
\* with optional errorMessage / error / statusCode fields ("" and 0 stand
\* for an absent field) and the transport StatusCode.
Resp(t, tsc, em, er, sc) ==
    [transport |-> t, StatusCode |-> tsc, errorMessage |-> em, error |-> er,
     statusCode |-> sc]

Responses ==
    { Resp("ok", 200, "", "", 200),
      Resp("ok", 200, "", "", 0),
      Resp("ok", 200, "", "bad header", 500),
      Resp("ok", 200, "", "", 500),
      Resp("ok", 200, "", "bad header", 200),
      Resp("ok", 200, "Task timed out", "", 0),
      Resp("Task timed out", 0, "", "", 0) }

invoke_lambda2_sync(r) ==
    IF r.transport # "ok" THEN [success |-> FALSE, error |-> r.transport]
    ELSE IF r.errorMessage # "" THEN [success |-> FALSE, error |-> r.errorMessage]
    ELSE IF (IF r.statusCode # 0 THEN r.statusCode ELSE r.StatusCode) = 200
         THEN [success |-> TRUE, error |-> ""]
    ELSE [success |-> FALSE, error |-> IF r.error # "" THEN r.error ELSE "Unknown error"]

(* ------------------------------- state -------------------------------- *)
VARIABLES
    archive,                  \* entries of the ZIP stored under ZipKey
    DELETE_ZIP_AFTER_SUCCESS, \* configuration toggle
    zipPresent,               \* the bucket still holds the ZIP
    s3objects,                \* destination key -> archive entry whose bytes it holds
    jobs,                     \* jobs_collection: jobId -> document
    clock,                    \* value get_ist_millis returns
    inv,                      \* invocations started so far
    pc,                       \* position of lambda_handler
    event, job_id, key, total_entries, idx,
    pdf_files, excel_file, other_files, skipped_files, valid_files_processed,
    lambda2_result,
    exc,                      \* message of the exception being propagated
    result,                   \* value lambda_handler returned
    storeLog,                 \* job-collection operations of this invocation
    putLog,                   \* put_object calls of this invocation
    deleteLog,                \* delete_object calls of this invocation
    lambda2_calls,            \* Lambda 2 invocations of this invocation
    existed                   \* a document for job_id existed when the handler was entered

envVars == <<archive, DELETE_ZIP_AFTER_SUCCESS, clock, inv, event, job_id, key, existed>>
loopVars == <<idx, pdf_files, excel_file, other_files, skipped_files, valid_files_processed>>
vars == <<archive, DELETE_ZIP_AFTER_SUCCESS, zipPresent, s3objects, jobs, clock, inv,
          pc, event, job_id, key, total_entries, idx, pdf_files, excel_file,
          other_files, skipped_files, valid_files_processed, lambda2_result, exc,
          result, storeLog, putLog, deleteLog, lambda2_calls, existed>>

EmptyMap == [x \in {} |-> x]
NoResult == [statusCode |-> 0, jobId |-> NoneId, status |-> "", error |-> <<>>]
\* total_entries before line 203 binds it
Unbound == 0 - 1
NoLambda2Result == [success |-> FALSE, error |-> ""]

(* --------------------------- job record store ------------------------- *)
\* fields a document does not carry yet
BlankJob ==
    [createdOn |-> 0, eventSource |-> "", status |-> "", progress |-> 0,
     s3Key |-> NoneKey, updatedOn |-> 0, error |-> <<>>,
     totalFiles |-> 0, validFilesProcessed |-> 0, totalPDFs |-> 0,
     pdfFiles |-> <<>>, excelFile |-> <<>>,
     originalZipDeleted |-> FALSE, zipDeletedAt |-> 0]

Merge(doc, set) == [f \in DOMAIN doc |-> IF f \in DOMAIN set THEN set[f] ELSE doc[f]]

\* the fields {"$set": set} assigns: all of them when a document matches
\* the filter, none otherwise (update_one does not upsert)
SetFields(coll, id, set) == IF id \in DOMAIN coll THEN set ELSE EmptyMap

\* mutant: the creation uses "$set", so it overwrites a document that exists
SetOnInsertFields_Always(coll, id, set) == set

\* the fields {"$setOnInsert": set} assigns: all of them when the upsert
\* inserts, none when a document already matches
SetOnInsertFields(coll, id, set) == IF id \in DOMAIN coll THEN EmptyMap ELSE set

\* update_one(filter, {"$set": set})
update_one(coll, id, set) ==
    IF id \in DOMAIN coll THEN [coll EXCEPT ![id] = Merge(@, SetFields(coll, id, set))]
    ELSE coll

\* mutant: the creation merges its fields into a document that exists
upsert_one_Overwrites(coll, id, set) ==
    (id :> Merge(IF id \in DOMAIN coll THEN coll[id] ELSE BlankJob, set)) @@ coll

\* update_one(filter, {"$setOnInsert": set}, upsert=True)
upsert_one(coll, id, set) ==
    (id :> Merge(IF id \in DOMAIN coll THEN coll[id] ELSE BlankJob,
                 SetOnInsertFields(coll, id, set))) @@ coll

\* storeLog entries: the operation as issued and the fields it assigned
LogUpdate(id, set) ==
    Append(storeLog, [op |-> "update", jobId |-> id, set |-> set,
                      applied |-> SetFields(jobs, id, set)])
LogUpsert(id, set) ==
    Append(storeLog, [op |-> "upsert", jobId |-> id, set |-> set,
                      applied |-> SetOnInsertFields(jobs, id, set)])

(* -------------------------------- Init -------------------------------- *)
\* The collection is empty, or holds the document an earlier direct
\* invocation for job J1 left when its download failed.
EarlierFailedJob ==
    Merge(BlankJob,
          [createdOn |-> 0, eventSource |-> "DIRECT_INVOCATION", status |-> "FAILED",
           progress |-> ProgressBase, s3Key |-> ZipKey, updatedOn |-> 0,
           error |-> <<"File is not a zip file">>])

InitialJobs == {EmptyMap, <<"J1", 0>> :> EarlierFailedJob}

Init ==
    /\ archive \in Archives
    /\ DELETE_ZIP_AFTER_SUCCESS \in BOOLEAN
    /\ zipPresent = TRUE
    /\ s3objects = EmptyMap
    /\ jobs \in InitialJobs
    /\ clock = 0
    /\ inv = 0
    /\ pc = "idle"
    /\ event = Ev("empty", NoneId, NoneKey)
    /\ job_id = NoneId
    /\ key = NoneKey
    /\ total_entries = Unbound
    /\ idx = 0
    /\ pdf_files = <<>>
    /\ excel_file = <<>>
    /\ other_files = <<>>
    /\ skipped_files = <<>>
    /\ valid_files_processed = 0
    /\ lambda2_result = NoLambda2Result
    /\ exc = <<>>
    /\ result = NoResult
    /\ storeLog = <<>>
    /\ putLog = <<>>
    /\ deleteLog = <<>>
    /\ lambda2_calls = 0
    /\ existed = FALSE

\* an exception propagates to the `except Exception` clause of the handler
Raise(msg) == pc' = "except" /\ exc' = msg

(* ----------------------- lambda_handler, step 1 ----------------------- *)
\* The handler is entered with a trigger payload: locals are initialised
\* and the payload is parsed (lines 152-167).
Start(ev) ==
    /\ pc \in {"idle", "done", "crashed"}
    /\ inv < MaxInvocations
    /\ inv' = inv + 1
    /\ clock' = clock + 1
    /\ event' = ev
    /\ LET parsed == parse_event(ev, inv + 1)
       IN  /\ job_id' = parsed.jobId
           /\ key' = parsed.s3Key
           /\ existed' = (parsed.jobId \in DOMAIN jobs)
           /\ IF parsed.ret = "dict" THEN pc' = "create" /\ exc' = <<>>
              ELSE IF parsed.ret = "None"
                   THEN Raise(<<"'NoneType' object is not subscriptable">>)
                   ELSE Raise(<<"Invalid event format">>)
    /\ total_entries' = Unbound
    /\ idx' = 0
    /\ pdf_files' = <<>>
    /\ excel_file' = <<>>
    /\ other_files' = <<>>
    /\ skipped_files' = <<>>
    /\ valid_files_processed' = 0
    /\ lambda2_result' = NoLambda2Result
    /\ result' = NoResult
    /\ storeLog' = <<>>
    /\ putLog' = <<>>
    /\ deleteLog' = <<>>
    /\ lambda2_calls' = 0
    /\ UNCHANGED <<archive, DELETE_ZIP_AFTER_SUCCESS, zipPresent, s3objects, jobs>>

(* ----------------------- steps 2 and 3: job record -------------------- *)
PendingDoc ==
    [createdOn |-> clock, eventSource |-> parse_event(event, inv).source,
     status |-> "PENDING", progress |-> 0]

CreateJob ==
    /\ pc = "create"
    /\ jobs' = upsert_one(jobs, job_id, PendingDoc)
    /\ storeLog' = LogUpsert(job_id, PendingDoc)
    /\ pc' = "mark_unzipping"
    /\ UNCHANGED <<envVars, loopVars, zipPresent, s3objects, total_entries,
                   lambda2_result, exc, result, putLog, deleteLog, lambda2_calls>>

UnzippingDoc ==
    [status |-> "UNZIPPING", progress |-> ProgressBase, s3Key |-> key, updatedOn |-> clock]

MarkUnzipping ==
    /\ pc = "mark_unzipping"
    /\ jobs' = update_one(jobs, job_id, UnzippingDoc)
    /\ storeLog' = LogUpdate(job_id, UnzippingDoc)
    /\ pc' = "download"
    /\ UNCHANGED <<envVars, loopVars, zipPresent, s3objects, total_entries,
                   lambda2_result, exc, result, putLog, deleteLog, lambda2_calls>>

(* ----------------------- step 4: download the ZIP --------------------- *)
Download ==
    /\ pc = "download"
    /\ key # NoneKey
    /\ zipPresent
    /\ total_entries' = Len(archive)
    /\ pc' = "loop"
    /\ UNCHANGED <<envVars, loopVars, zipPresent, s3objects, jobs, lambda2_result,
                   exc, result, storeLog, putLog, deleteLog, lambda2_calls>>

\* get_object raises (no key, no such object, transport error) or the
\* bytes are no ZIP file
DownloadRaises ==
    /\ pc = "download"
    /\ Raise(IF key = NoneKey THEN <<"Parameter validation failed">>
             ELSE IF ~zipPresent THEN <<"NoSuchKey">>
             ELSE <<"File is not a zip file">>)
    /\ UNCHANGED <<envVars, loopVars, zipPresent, s3objects, jobs, total_entries,
                   lambda2_result, result, storeLog, putLog, deleteLog, lambda2_calls>>

(* ----------------------- step 5: the extraction loop ------------------ *)
\* The model's idx counts the entries the loop has taken from file_list:
\* while the body runs for an entry it is Python's idx, afterwards idx + 1.
\* file_list[idx] of the entry the body runs for:
Entry == archive[idx + 1]

\* after the body ran to its end for file_list[idx]: if (idx + 1) % 10 == 0
AfterBody ==
    /\ idx' = idx + 1
    /\ pc' = IF (idx + 1) % CheckpointEvery = 0 THEN "checkpoint" ELSE "loop"

\* mutant: a `continue` branch records nothing in the skip list
SkipEntry_Silent ==
    /\ pc = "loop"
    /\ idx < total_entries
    /\ Branch(Entry) \in {"dir", "Junk", "ReadError", "Empty", "Too small"}
    /\ idx' = idx + 1
    /\ UNCHANGED <<envVars, zipPresent, s3objects, jobs, pc, total_entries, pdf_files,
                   excel_file, other_files, skipped_files, valid_files_processed,
                   lambda2_result, exc, result, storeLog, putLog, deleteLog,
                   lambda2_calls>>

\* an entry that leaves the body through `continue`
SkipEntry ==
    /\ pc = "loop"
    /\ idx < total_entries
    /\ Branch(Entry) \in {"dir", "Junk", "ReadError", "Empty", "Too small"}
    /\ skipped_files' = IF Branch(Entry) = "dir" THEN skipped_files
                        ELSE Append(skipped_files, SkipRecord(Entry, idx + 1))
    /\ idx' = idx + 1
    /\ UNCHANGED <<envVars, zipPresent, s3objects, jobs, pc, total_entries, pdf_files,
                   excel_file, other_files, valid_files_processed, lambda2_result, exc,
                   result, storeLog, putLog, deleteLog, lambda2_calls>>

\* s3_client.put_object(Key = dest_key, Body = file_data)
put_object(objs, e) == (DestKey(e) :> e) @@ objs

\* mutant: every qualifying spreadsheet replaces the accepted one
ExcelAccepts_Always == TRUE

\* the spreadsheet branch after its put_object (lines 264-273)
ExcelAccepts == excel_file = <<>>

UploadEntry ==
    /\ pc = "loop"
    /\ idx < total_entries
    /\ Branch(Entry) \in {"pdf", "excel", "other"}
    /\ s3objects' = put_object(s3objects, Entry)
    /\ putLog' = Append(putLog, [entry |-> idx + 1, key |-> DestKey(Entry)])
    /\ CASE Branch(Entry) = "pdf" ->
              /\ pdf_files' = Append(pdf_files, Manifest(Entry, idx + 1))
              /\ valid_files_processed' = valid_files_processed + 1
              /\ UNCHANGED <<excel_file, other_files, skipped_files>>
         [] Branch(Entry) = "excel" ->
              IF ExcelAccepts
              THEN /\ excel_file' = <<Manifest(Entry, idx + 1)>>
                   /\ valid_files_processed' = valid_files_processed + 1
                   /\ UNCHANGED <<pdf_files, other_files, skipped_files>>
              ELSE /\ skipped_files' =
                        Append(skipped_files, [fileName |-> <<"">> \o BaseName(Entry),
                                               reason |-> "Duplicate",
                                               entry |-> idx + 1])
                   /\ UNCHANGED <<pdf_files, excel_file, other_files,
                                  valid_files_processed>>
         [] OTHER ->
              /\ other_files' = Append(other_files, Manifest(Entry, idx + 1))
              /\ valid_files_processed' = valid_files_processed + 1
              /\ UNCHANGED <<pdf_files, excel_file, skipped_files>>
    /\ AfterBody
    /\ UNCHANGED <<envVars, zipPresent, jobs, total_entries, lambda2_result, exc,
                   result, storeLog, deleteLog, lambda2_calls>>

UploadRaises ==
    /\ pc = "loop"
    /\ idx < total_entries
    /\ Branch(Entry) \in {"pdf", "excel", "other"}
    /\ Raise(<<"S3 put_object failed">>)
    /\ UNCHANGED <<envVars, loopVars, zipPresent, s3objects, jobs, total_entries,
                   lambda2_result, result, storeLog, putLog, deleteLog, lambda2_calls>>

ProgressDoc ==
    [progress |-> CheckpointProgress(idx, total_entries), updatedOn |-> clock]

Checkpoint ==
    /\ pc = "checkpoint"
    /\ jobs' = update_one(jobs, job_id, ProgressDoc)
    /\ storeLog' = LogUpdate(job_id, ProgressDoc)
    /\ pc' = "loop"
    /\ UNCHANGED <<envVars, loopVars, zipPresent, s3objects, total_entries,
                   lambda2_result, exc, result, putLog, deleteLog, lambda2_calls>>

(* ----------------------- step 6: mandatory payloads ------------------- *)
\* the loop is over: both a spreadsheet and a PDF must have been accepted
CheckRequired ==
    /\ pc = "loop"
    /\ idx = total_entries
    /\ IF excel_file = <<>> THEN Raise(<<"No Excel file found">>)
       ELSE IF Len(pdf_files) = 0 THEN Raise(<<"No PDF files found">>)
       ELSE pc' = "mark_unzipped" /\ exc' = exc
    /\ UNCHANGED <<envVars, loopVars, zipPresent, s3objects, jobs, total_entries,
                   lambda2_result, result, storeLog, putLog, deleteLog, lambda2_calls>>

\* mutant: the UNZIPPED write carries the status only, no manifests or counts
UnzippedDoc_StatusOnly ==
    [progress |-> ProgressUnzipped, status |-> "UNZIPPED", updatedOn |-> clock]

UnzippedDoc ==
    [progress |-> ProgressUnzipped, status |-> "UNZIPPED", updatedOn |-> clock,
     totalFiles |-> total_entries, validFilesProcessed |-> valid_files_processed,
     totalPDFs |-> Len(pdf_files), pdfFiles |-> pdf_files, excelFile |-> excel_file]

MarkUnzipped ==
    /\ pc = "mark_unzipped"
    /\ jobs' = update_one(jobs, job_id, UnzippedDoc)
    /\ storeLog' = LogUpdate(job_id, UnzippedDoc)
    /\ pc' = "invoke_lambda2"
    /\ UNCHANGED <<envVars, loopVars, zipPresent, s3objects, total_entries,
                   lambda2_result, exc, result, putLog, deleteLog, lambda2_calls>>

(* ----------------------- step 7: Lambda 2 ----------------------------- *)
\* where the handler goes once Lambda 2 reported success (lines 336-338)
AfterLambda2Success == IF DELETE_ZIP_AFTER_SUCCESS THEN "delete_zip" ELSE "mark_completed"

InvokeLambda2(r) ==
    /\ pc = "invoke_lambda2"
    /\ lambda2_result' = invoke_lambda2_sync(r)
    /\ lambda2_calls' = lambda2_calls + 1
    /\ pc' = IF lambda2_result'.success THEN AfterLambda2Success
             ELSE "mark_validation_failed"
    /\ UNCHANGED <<envVars, loopVars, zipPresent, s3objects, jobs, total_entries, exc,
                   result, storeLog, putLog, deleteLog>>

ValidationFailedDoc ==
    [status |-> "VALIDATION_FAILED",
     error |-> <<"Validation failed: ", lambda2_result.error>>, updatedOn |-> clock]

\* mutant: the raised message drops the text Lambda 2 gave
Lambda2FailedMessage_NoText(error_msg) == <<"Lambda 2 failed">>

\* raise Exception(f"Lambda 2 failed: {error_msg}")
Lambda2FailedMessage(error_msg) == <<"Lambda 2 failed: ", error_msg>>

MarkValidationFailed ==
    /\ pc = "mark_validation_failed"
    /\ jobs' = update_one(jobs, job_id, ValidationFailedDoc)
    /\ storeLog' = LogUpdate(job_id, ValidationFailedDoc)
    /\ Raise(Lambda2FailedMessage(lambda2_result.error))
    /\ UNCHANGED <<envVars, loopVars, zipPresent, s3objects, total_entries,
                   lambda2_result, result, putLog, deleteLog, lambda2_calls>>

(* ----------------------- step 8: delete_zip_file ---------------------- *)
DeleteZip ==
    /\ pc = "delete_zip"
    /\ zipPresent' = FALSE
    /\ deleteLog' = Append(deleteLog, key)
    /\ pc' = "mark_zip_deleted"
    /\ UNCHANGED <<envVars, loopVars, s3objects, jobs, total_entries, lambda2_result,
                   exc, result, storeLog, putLog, lambda2_calls>>

\* mutant: delete_zip_file has no try / except, a failed delete propagates
DeleteZipRaises_Escalates ==
    /\ pc = "delete_zip"
    /\ Raise(<<"S3 delete_object failed">>)
    /\ UNCHANGED <<envVars, loopVars, zipPresent, s3objects, jobs, total_entries,
                   lambda2_result, result, storeLog, putLog, deleteLog, lambda2_calls>>

\* delete_object raises: delete_zip_file logs and returns False
DeleteZipRaises ==
    /\ pc = "delete_zip"
    /\ pc' = "mark_completed"
    /\ UNCHANGED <<envVars, loopVars, zipPresent, s3objects, jobs, total_entries,
                   lambda2_result, exc, result, storeLog, putLog, deleteLog,
                   lambda2_calls>>

ZipDeletedDoc == [originalZipDeleted |-> TRUE, zipDeletedAt |-> clock]

MarkZipDeleted ==
    /\ pc = "mark_zip_deleted"
    /\ jobs' = update_one(jobs, job_id, ZipDeletedDoc)
    /\ storeLog' = LogUpdate(job_id, ZipDeletedDoc)
    /\ pc' = "mark_completed"
    /\ UNCHANGED <<envVars, loopVars, zipPresent, s3objects, total_entries,
                   lambda2_result, exc, result, putLog, deleteLog, lambda2_calls>>

\* the flag update raises inside delete_zip_file: logged, returns False
MarkZipDeletedRaises ==
    /\ pc = "mark_zip_deleted"
    /\ pc' = "mark_completed"
    /\ UNCHANGED <<envVars, loopVars, zipPresent, s3objects, jobs, total_entries,
                   lambda2_result, exc, result, storeLog, putLog, deleteLog,
                   lambda2_calls>>

(* ----------------------- step 9: completion --------------------------- *)
CompletedDoc == [status |-> "COMPLETED", updatedOn |-> clock]

MarkCompleted ==
    /\ pc = "mark_completed"
    /\ jobs' = update_one(jobs, job_id, CompletedDoc)
    /\ storeLog' = LogUpdate(job_id, CompletedDoc)
    /\ result' = [statusCode |-> 200, jobId |-> job_id, status |-> "SUCCESS",
                  error |-> <<>>]
    /\ pc' = "done"
    /\ UNCHANGED <<envVars, loopVars, zipPresent, s3objects, total_entries,
                   lambda2_result, exc, putLog, deleteLog, lambda2_calls>>

(* ----------------------- the except clause ---------------------------- *)
FailedDoc == [status |-> "FAILED", error |-> exc, updatedOn |-> clock]

\* the update the except clause issues (lines 357-364)
FailureWrite(coll) == update_one(coll, job_id, FailedDoc)

HandleException ==
    /\ pc = "except"
    /\ jobs' = FailureWrite(jobs)
    /\ storeLog' = LogUpdate(job_id, FailedDoc)
    /\ result' = [statusCode |-> 500, jobId |-> job_id, status |-> "FAILED",
                  error |-> exc]
    /\ pc' = "done"
    /\ UNCHANGED <<envVars, loopVars, zipPresent, s3objects, total_entries,
                   lambda2_result, exc, putLog, deleteLog, lambda2_calls>>

(* ----------------------- job-collection failures ---------------------- *)
TryWrites ==
    {"create", "mark_unzipping", "checkpoint", "mark_unzipped",
     "mark_validation_failed", "mark_completed"}

\* an update_one of the try block raises (the write is not applied)
StoreWriteRaises ==
    /\ pc \in TryWrites
    /\ Raise(<<"pymongo: connection closed">>)
    /\ UNCHANGED <<envVars, loopVars, zipPresent, s3objects, jobs, total_entries,
                   lambda2_result, result, storeLog, putLog, deleteLog, lambda2_calls>>

\* the update_one of the except clause raises: nothing catches it
FailureWriteRaises ==
    /\ pc = "except"
    /\ pc' = "crashed"
    /\ exc' = <<"pymongo: connection closed">>
    /\ UNCHANGED <<envVars, loopVars, zipPresent, s3objects, jobs, total_entries,
                   lambda2_result, result, storeLog, putLog, deleteLog, lambda2_calls>>

(* ----------------------------- specifications ------------------------- *)
\* The handler with the failures its design handles: S3 get / put / delete,
\* unreadable entries, Lambda 2 failures, failures inside delete_zip_file.
Next ==
    \/ \E ev \in Events : Start(ev)
    \/ CreateJob
    \/ MarkUnzipping
    \/ Download
    \/ DownloadRaises
    \/ SkipEntry
    \/ UploadEntry
    \/ UploadRaises
    \/ Checkpoint
    \/ CheckRequired
    \/ MarkUnzipped
    \/ \E r \in Responses : InvokeLambda2(r)
    \/ MarkValidationFailed
    \/ DeleteZip
    \/ DeleteZipRaises
    \/ MarkZipDeleted
    \/ MarkZipDeletedRaises
    \/ MarkCompleted
    \/ HandleException

Spec == Init /\ [][Next]_vars

\* The same, and any update_one of the handler may raise as well.
NextStoreFaults ==
    \/ Next
    \/ StoreWriteRaises
    \/ FailureWriteRaises

SpecStoreFaults == Init /\ [][NextStoreFaults]_vars

(* ----------------------- a concurrent invocation ---------------------- *)
\* A second invocation for the same job identifier runs its creation step
\* (lines 169-183) while this one is between its own steps; it read
\* get_ist_millis after this invocation did.
PeerPendingDoc ==
    [createdOn |-> clock + 1, eventSource |-> "DIRECT_INVOCATION",
     status |-> "PENDING", progress |-> 0]

PeerCreateJob ==
    /\ pc \notin {"idle", "done", "crashed"}
    /\ job_id # NoneId
    /\ jobs' = upsert_one(jobs, job_id, PeerPendingDoc)
    /\ UNCHANGED <<envVars, loopVars, zipPresent, s3objects, pc, total_entries,
                   lambda2_result, exc, result, storeLog, putLog, deleteLog,
                   lambda2_calls>>

\* The handler, interleaved with the creation step of a concurrent
\* invocation for the same job identifier.
NextConcurrent ==
    \/ Next
    \/ PeerCreateJob

SpecConcurrent == Init /\ [][NextConcurrent]_vars

(* ------------------------- observations on a run ---------------------- *)
\* the status values the operations of this invocation assigned, in order
AssignsStatus(entry) == "status" \in DOMAIN entry.applied
StatusWrites ==
    LET writes == SelectSeq(storeLog, AssignsStatus)
    IN  [i \in 1..Len(writes) |-> writes[i].applied.status]
LastOf(q) == q[Len(q)]
Terminal == {"COMPLETED", "FAILED"}

Returned == pc = "done"
ReturnedSuccess == Returned /\ result.statusCode = 200 /\ result.status = "SUCCESS"
ReturnedFailed == Returned /\ result.statusCode = 500 /\ result.status = "FAILED"

\* entries whose loop body has run
Handled == idx
\* the loop has run over every entry of the archive
AllHandled == total_entries # Unbound /\ pc # "checkpoint" /\ idx = total_entries

\* what the classifier is to accept, stated on the entry itself
IsFile(e) == ~EndsWithSlash(e) /\ ~is_junk_file(e) /\ e.readable
QualifyingPdf(e) == IsFile(e) /\ Lower(e.ext) = ".pdf" /\ e.size >= MinPdfSize
QualifyingExcel(e) ==
    IsFile(e) /\ Lower(e.ext) \in {".xlsx", ".xls"} /\ e.size >= MinExcelSize

QualifyingExcels(n) == {i \in 1..n : QualifyingExcel(archive[i])}
Duplicates == {i \in 1..Len(skipped_files) : skipped_files[i].reason = "Duplicate"}
MinOf(S) == CHOOSE m \in S : \A n \in S : m <= n

(* ------------------------------- claims ------------------------------- *)

\* C1: an invocation that returns {200, SUCCESS} has written exactly the
\* statuses PENDING (only if the record was absent when it started),
\* UNZIPPING, UNZIPPED, COMPLETED, in this order; and COMPLETED is in the
\* record only once Lambda 2 has reported success.
C1_HappyPathOrder ==
    /\ ReturnedSuccess =>
         StatusWrites = (IF existed THEN <<>> ELSE <<"PENDING">>)
                            \o <<"UNZIPPING", "UNZIPPED", "COMPLETED">>
    /\ (\E i \in 1..Len(StatusWrites) : StatusWrites[i] = "COMPLETED") =>
         lambda2_calls > 0 /\ lambda2_result.success

C1_Witness == ReturnedSuccess /\ existed /\ Len(StatusWrites) = 3

\* C2: once Lambda 2 has reported failure, COMPLETED is never written, the
\* handler ends in the except clause, and when it returns the last three
\* statuses written are UNZIPPED, VALIDATION_FAILED, FAILED and the result
\* is {500, FAILED} with an error containing the text captured from Lambda 2.
Lambda2Failed == lambda2_calls > 0 /\ ~lambda2_result.success

C2_ValidationFailure ==
    Lambda2Failed =>
      /\ pc \in {"mark_validation_failed", "except", "done"}
      /\ \A i \in 1..Len(StatusWrites) : StatusWrites[i] # "COMPLETED"
      /\ pc = "except" => LastOf(StatusWrites) = "VALIDATION_FAILED"
      /\ Returned =>
           /\ Len(StatusWrites) >= 3
           /\ SubSeq(StatusWrites, Len(StatusWrites) - 2, Len(StatusWrites))
                = <<"UNZIPPED", "VALIDATION_FAILED", "FAILED">>
           /\ ReturnedFailed
           /\ Contains(result.error, lambda2_result.error)
           /\ jobs[job_id].status = "FAILED"

C2_Witness ==
    Lambda2Failed /\ Returned /\ lambda2_result.error = "bad header"
        /\ Contains(result.error, "bad header")

\* C3: when every entry has been handled and the archive holds no
\* qualifying spreadsheet or no qualifying PDF, UNZIPPED is never written,
\* Lambda 2 is never called, and the handler returns {500, FAILED} after a
\* last status write of FAILED that sets the error field.
MissingPayload ==
    \/ ~\E i \in 1..Len(archive) : QualifyingExcel(archive[i])
    \/ ~\E i \in 1..Len(archive) : QualifyingPdf(archive[i])

C3_MissingPayloadFails ==
    (AllHandled /\ MissingPayload) =>
      /\ pc \in {"loop", "except", "done"}
      /\ \A i \in 1..Len(StatusWrites) : StatusWrites[i] # "UNZIPPED"
      /\ lambda2_calls = 0
      /\ Returned =>
           /\ ReturnedFailed
           /\ result.error \in {<<"No Excel file found">>, <<"No PDF files found">>}
           /\ StatusWrites # <<>>
           /\ LastOf(StatusWrites) = "FAILED"
           /\ LastOf(storeLog).applied.error = result.error
           /\ jobs[job_id].status = "FAILED"
           /\ jobs[job_id].error # <<>>

C3_Witness ==
    /\ AllHandled /\ Returned
    /\ \E i \in 1..Len(archive) : QualifyingExcel(archive[i])
    /\ \E i \in 1..Len(archive) : archive[i] = E_tiny
    /\ result.error = <<"No PDF files found">>

\* C4: in an invocation that obtained a job identifier, a terminal status
\* (COMPLETED or FAILED) is never followed by another status write, and
\* when the invocation is over (returned or not) exactly one has been
\* written, as the last status.
C4_TerminalExactlyOnce ==
    (inv > 0 /\ job_id # NoneId) =>
      /\ \A i \in 1..Len(StatusWrites) :
            StatusWrites[i] \in Terminal => i = Len(StatusWrites)
      /\ pc \in {"done", "crashed"} =>
            StatusWrites # <<>> /\ LastOf(StatusWrites) \in Terminal

\* C5: whatever the trigger and whichever collaborator fails, the handler
\* returns a result with statusCode 200 or 500 and a status; no exception
\* leaves it.
C5_NoExceptionEscapes ==
    /\ pc # "crashed"
    /\ Returned => ReturnedSuccess \/ ReturnedFailed

\* C6: an invocation whose trigger yields no job identifier issues no
\* operation on the job collection.
C6_NoStoreOpWithoutJobId ==
    (inv > 0 /\ job_id = NoneId) => storeLog = <<>>

\* C7: no entry of the skip list has been uploaded.
C7_SkippedNeverUploaded ==
    \A i \in 1..Len(skipped_files) : \A j \in 1..Len(putLog) :
        putLog[j].entry # skipped_files[i].entry

\* C8: at every point of the extraction at most one spreadsheet is
\* accepted; once a qualifying spreadsheet has been handled the accepted
\* one is the first qualifying entry in archive order, and every other
\* qualifying spreadsheet handled so far has a skip record "Duplicate"
\* (N - 1 of them for N qualifying spreadsheets).
C8_FirstSpreadsheetWins ==
    total_entries # Unbound =>
      LET Q == QualifyingExcels(Handled) IN
      /\ Len(excel_file) <= 1
      /\ Q = {} => excel_file = <<>> /\ Duplicates = {}
      /\ Q # {} =>
           /\ Len(excel_file) = 1
           /\ excel_file[1].entry = MinOf(Q)
           /\ Cardinality(Duplicates) = Cardinality(Q) - 1
           /\ {skipped_files[i].entry : i \in Duplicates} = Q \ {MinOf(Q)}

C8_Witness ==
    /\ AllHandled /\ Returned
    /\ Cardinality(QualifyingExcels(Len(archive))) >= 2
    /\ Cardinality(Duplicates) >= 1
    /\ excel_file[1].entry > 1

\* C9: delete_object on the source archive is issued only once Lambda 2
\* has reported success, and an invocation that returns FAILED has not
\* deleted the source archive.
C9_DeleteOnlyOnSuccess ==
    /\ deleteLog # <<>> => lambda2_calls > 0 /\ lambda2_result.success
    /\ ReturnedFailed => deleteLog = <<>>

\* C10: when delete_zip_file fails after Lambda 2 succeeded (delete_object
\* or the flag update raised), the handler goes on to write COMPLETED and
\* returns {200, SUCCESS}; the deletion flag is written only after
\* delete_object succeeded.
FlagIssued ==
    \E i \in 1..Len(storeLog) : "originalZipDeleted" \in DOMAIN storeLog[i].set

DeleteReturnedFalse ==
    /\ DELETE_ZIP_AFTER_SUCCESS
    /\ lambda2_calls > 0 /\ lambda2_result.success
    /\ pc \notin {"delete_zip", "mark_zip_deleted"}
    /\ ~FlagIssued

C10_DeleteFailureNotEscalated ==
    /\ DeleteReturnedFalse =>
         /\ pc \in {"mark_completed", "done"}
         /\ Returned =>
              /\ ReturnedSuccess
              /\ LastOf(StatusWrites) = "COMPLETED"
              /\ jobs[job_id].status = "COMPLETED"
    /\ FlagIssued => deleteLog # <<>> /\ ~zipPresent
    /\ \A id \in DOMAIN jobs : jobs[id].originalZipDeleted => ~zipPresent

C10_Witness ==
    /\ DeleteReturnedFalse /\ ReturnedSuccess
    /\ deleteLog # <<>>
    /\ ~jobs[job_id].originalZipDeleted

\* C11: invoke_lambda2_sync reports success exactly for a response that
\* carries status 200, no `error` field and no `errorMessage` field and came
\* without a transport exception; every other response is reported as a
\* failure with a non-empty captured error message.
EffectiveStatus(r) == IF r.statusCode # 0 THEN r.statusCode ELSE r.StatusCode

CleanOk(r) ==
    r.transport = "ok" /\ r.errorMessage = "" /\ r.error = "" /\ EffectiveStatus(r) = 200

C11_SuccessIffCleanOk ==
    [][\A r \in Responses :
          InvokeLambda2(r) =>
            /\ lambda2_result'.success <=> CleanOk(r)
            /\ ~lambda2_result'.success => lambda2_result'.error # ""]_vars

\* C12: within one invocation Lambda 2 is called at most once (a failure is
\* not retried), and it is called only after the update that sets status
\* UNZIPPED, progress 40, the PDF and spreadsheet manifests and the counts
\* was applied to the job record.
UnzippedRecorded ==
    \E i \in 1..Len(storeLog) :
        /\ storeLog[i].op = "update"
        /\ storeLog[i].jobId = job_id
        /\ DOMAIN storeLog[i].applied =
             {"status", "progress", "updatedOn", "totalFiles", "validFilesProcessed",
              "totalPDFs", "pdfFiles", "excelFile"}
        /\ storeLog[i].applied.status = "UNZIPPED"
        /\ storeLog[i].applied.progress = 40
        /\ storeLog[i].applied.pdfFiles = pdf_files /\ pdf_files # <<>>
        /\ storeLog[i].applied.excelFile = excel_file /\ excel_file # <<>>
        /\ storeLog[i].applied.totalFiles = total_entries
        /\ storeLog[i].applied.validFilesProcessed = valid_files_processed
        /\ storeLog[i].applied.totalPDFs = Len(pdf_files)

C12_Lambda2OnceAfterUnzipped ==
    /\ lambda2_calls <= 1
    /\ (pc = "invoke_lambda2" \/ lambda2_calls > 0) => UnzippedRecorded
    /\ pc = "invoke_lambda2" =>
         /\ lambda2_calls = 0
         /\ jobs[job_id].status = "UNZIPPED"
         /\ jobs[job_id].progress = 40
         /\ jobs[job_id].pdfFiles = pdf_files
         /\ jobs[job_id].excelFile = excel_file
    /\ Lambda2Failed => pc # "invoke_lambda2"

C12_Witness ==
    /\ ReturnedFailed /\ Lambda2Failed /\ lambda2_calls = 1
    /\ UnzippedRecorded /\ Len(pdf_files) = 2

\* C13: in an invocation that started with no record for its job
\* identifier, the progress values stored in the record (0 at creation,
\* then the values the updates assign) never decrease; every value an
\* update assigns up to the UNZIPPED write lies between 10 and 40; the
\* UNZIPPED write assigns exactly 40 whatever the number of entries; the
\* writes of VALIDATION_FAILED, FAILED and COMPLETED assign no progress, so
\* the record keeps the last value written.
AssignsProgress(entry) == "progress" \in DOMAIN entry.applied
ProgressWrites ==
    LET writes == SelectSeq(storeLog, AssignsProgress)
    IN  [i \in 1..Len(writes) |-> writes[i].applied.progress]

CheckpointPersisted(i) ==
    \E k \in 1..Len(storeLog) :
        /\ storeLog[k].op = "update"
        /\ DOMAIN storeLog[k].applied = {"progress", "updatedOn"}
        /\ storeLog[k].applied.progress = 10 + ((i * 30) \div total_entries)

C14_CheckpointEveryTenth ==
    total_entries # Unbound =>
      \A i \in 1..Handled :
          (i % 10 = 0 /\ ~(i = Handled /\ pc = "checkpoint")) => CheckpointPersisted(i)

C16_UpdatesRefreshTimestamp ==
    \A i \in 1..Len(storeLog) :
        storeLog[i].op = "update" =>
          /\ "updatedOn" \in DOMAIN storeLog[i].set
          /\ "createdOn" \notin DOMAIN storeLog[i].set

\* C17: a job record carries an error message only while its status is
\* VALIDATION_FAILED or FAILED; a record whose status is PENDING,
\* UNZIPPING, UNZIPPED or COMPLETED has no error field, also after a failed
\* run was followed by another invocation for the same job identifier.
C17_ErrorOnlyInFailureStates ==
    \A id \in DOMAIN jobs :
        jobs[id].error # <<>> => jobs[id].status \in {"VALIDATION_FAILED", "FAILED"}

\* C18: at every point of the extraction loop each non-directory entry
\* handled so far is in exactly one place: one accepted list (PDF
\* manifests, the spreadsheet manifest, generic manifests) or the skip
\* list; validFilesProcessed is the number of accepted entries, accepted
\* plus skipped is the number of non-directory entries handled, directory
\* entries are in no list and count in totalEntries; an entry whose read
\* fails gets a skip record and the loop goes on.
CountOf(list, i) == Cardinality({k \in 1..Len(list) : list[k].entry = i})
AcceptedCount(i) == CountOf(pdf_files, i) + CountOf(excel_file, i) + CountOf(other_files, i)
Accepted == Len(pdf_files) + Len(excel_file) + Len(other_files)
NonDirectoryHandled == {i \in 1..Handled : ~EndsWithSlash(archive[i])}
ReadFails(e) == ~EndsWithSlash(e) /\ ~is_junk_file(e) /\ ~e.readable

C18_EveryEntryAccountedOnce ==
    total_entries # Unbound =>
      /\ total_entries = Len(archive)
      /\ \A i \in 1..Len(archive) :
            AcceptedCount(i) + CountOf(skipped_files, i) =
               (IF i \in NonDirectoryHandled THEN 1 ELSE 0)
      /\ valid_files_processed = Accepted
      /\ Accepted + Len(skipped_files) = Cardinality(NonDirectoryHandled)
      /\ \A i \in 1..Handled :
            ReadFails(archive[i]) =>
               \E k \in 1..Len(skipped_files) :
                   /\ skipped_files[k].entry = i
                   /\ skipped_files[k].fileName = FileName(archive[i])
      /\ (pc \in {"except", "done"} /\ Handled < total_entries) =>
            /\ exc \in {<<"S3 put_object failed">>, <<"pymongo: connection closed">>}
            /\ exc = <<"S3 put_object failed">> => ~ReadFails(archive[Handled + 1])

C18_Witness ==
    /\ AllHandled /\ ReturnedSuccess
    /\ \E i \in 1..Len(archive) : i < Len(archive) /\ ReadFails(archive[i])
    /\ Len(skipped_files) = 1 /\ Accepted = 2

\* C19: once status UNZIPPED has been written, every manifest item attached
\* to the record (each PDF item and the spreadsheet item) names a
\* destination key under which the bucket holds the bytes of the archive
\* entry the item describes, and no two manifest items share a
\* destination key.
UnzippedWritten ==
    \E i \in 1..Len(storeLog) :
        "status" \in DOMAIN storeLog[i].applied /\ storeLog[i].applied.status = "UNZIPPED"

ManifestItems == pdf_files \o excel_file

C19_ManifestKeysHoldTheirEntry ==
    UnzippedWritten =>
      /\ \A k \in 1..Len(ManifestItems) :
            /\ ManifestItems[k].s3Key \in DOMAIN s3objects
            /\ s3objects[ManifestItems[k].s3Key] = archive[ManifestItems[k].entry]
      /\ \A k \in 1..Len(ManifestItems) : \A l \in 1..Len(ManifestItems) :
            k # l => ManifestItems[k].s3Key # ManifestItems[l].s3Key

====
